---- MODULE Spec2Model ----
(***************************************************************************)
(* Order manifest of usr-backend (src/usr-backend/src/manifest.rs).        *)
(*                                                                         *)
(* The four mutating handlers new_order, change_order, cancel_order and    *)
(* update_order run as asynchronous tasks against one database.  Every     *)
(* `.await` on a database call is a point where another handler may run,   *)
(* so each handler is a process whose steps are its database calls; a      *)
(* `transaction(...)` block is one step.  Every database call may return   *)
(* Err (DbErr), which is an input of the step.                             *)
(*                                                                         *)
(* Spec interleaves the handlers at their database calls; SpecSerial runs   *)
(* one request at a time.  Both webhooks are taken as configured (Some),   *)
(* so enqueue appends to the queue; backup_db is counted per call.         *)
(* unreachable!() ends the handler with PANIC instead of a response.       *)
(*                                                                         *)
(* Options are sets: None is {} and Some(x) is {x}.                        *)
(* The `date` column of order_status is not modelled (no handler reads     *)
(* it); of the descriptive columns of `order`, name and store_in stand for *)
(* all eight, which the handlers always set or leave together.             *)
(***************************************************************************)
EXTENDS Integers, FiniteSets, Sequences, TLC

\* ------------------------------------------------------------------ bounds
\* Number of orders that may be created (ids 1..MaxOrders).
MaxOrders == 2
\* Number of requests issued in one behaviour.
MaxRequests == 3

\* ------------------------------------------------------------- value sets
\* The two request slots (handlers that may be in flight at once).
Procs == {"p1", "p2"}
IDs == 1..MaxOrders
\* order_status::Status: New, one intermediate value, the terminal InStorage.
Status == {"New", "Ordered", "InStorage"}
\* PendingOrder / ChangeOrder payloads (descriptive fields).
Fields == {[name |-> "Widget", store_in |-> ""],
           [name |-> "Widget Pro", store_in |-> "shelf"]}
\* UpdateOrder.ref_number : Option<u32>
RefNumbers == {{}, {555}}

None == {}
Some(x) == {x}

VARIABLES
    orders,                \* table `order`: set of rows
    statuses,              \* table `order_status`: set of rows
    nextId,                \* auto-increment of order.id
    pc,                    \* position of each handler
    req,                   \* the request (Json body) each handler serves
    local,                 \* handler locals: model.status read, same_status, result,
                           \* webhook_msg; fault: a database call returned an injected DbErr
    resp,                  \* (StatusCode, body) returned by each handler
    new_orders_webhook,    \* messages enqueued on state.new_orders_webhook
    order_updates_webhook, \* messages enqueued on state.order_updates_webhook
    backups,               \* number of backup_db(state) calls
    issued,                \* requests issued so far
    onEntry                \* history (serial runs): what each request found on arrival

vars == <<orders, statuses, nextId, pc, req, local, resp,
          new_orders_webhook, order_updates_webhook, backups, issued, onEntry>>

\* --------------------------------------------------------------- responses
OK == [code |-> "OK", body |-> ""]
INTERNAL_SERVER_ERROR == [code |-> "INTERNAL_SERVER_ERROR", body |-> ""]
BAD_REQUEST(msg) == [code |-> "BAD_REQUEST", body |-> msg]
\* unreachable!() panics the task: the caller gets no response from the handler.
PANIC == [code |-> "PANIC", body |-> "unreachable"]
NoResp == [code |-> "", body |-> ""]

NoReq == [op |-> "none", id |-> 0, force |-> FALSE, status |-> "New",
          ref_number |-> None, fields |-> [name |-> "", store_in |-> ""]]
NoMsg == [title |-> "", name |-> "", location |-> ""]
NoLocal == [model |-> None, same_status |-> FALSE, result |-> "", webhook_msg |-> NoMsg,
            fault |-> FALSE]

\* -------------------------------------------------------------- the tables
\* The database as one value, so that a transaction can be rolled back.
Db(o, s, n) == [orders |-> o, statuses |-> s, nextId |-> n]

\* order_status::Entity::find().filter(OrderId.eq(id))
StatusesOf(s, id) == {e \in s : e.order_id = id}

\* Mutant of LatestStatus: the rows are read in ascending order of instance_id.
LatestStatusAsc(s, id) ==
    {e \in StatusesOf(s, id) : \A f \in StatusesOf(s, id) : e.instance_id <= f.instance_id}

\* ...order_by_desc(InstanceId).one(db): the row with the greatest instance_id.
LatestStatus(s, id) ==
    {e \in StatusesOf(s, id) : \A f \in StatusesOf(s, id) : f.instance_id <= e.instance_id}

\* order::Entity::find_by_id(id).one(db)
find_by_id(o, id) == {r \in o : r.id = id}

\* instance_id: ActiveValue::NotSet, assigned by the table on insert.
NextInstanceId(s, id) ==
    IF StatusesOf(s, id) = {} THEN 1
    ELSE 1 + (CHOOSE m \in {e.instance_id : e \in StatusesOf(s, id)} :
                 \A e \in StatusesOf(s, id) : e.instance_id <= m)

\* What a request found on arrival (history, read by no handler).
Snapshot(db, nb, nl, ns) ==
    [orders |-> db.orders, statuses |-> db.statuses, nextId |-> db.nextId,
     backups |-> nb, new_orders |-> nl, order_updates |-> ns]
NoEntry == Snapshot(Db({}, {}, 0), 0, 0, 0)

Init ==
    /\ orders = {}
    /\ statuses = {}
    /\ nextId = 1
    /\ pc = [p \in Procs |-> "idle"]
    /\ req = [p \in Procs |-> NoReq]
    /\ local = [p \in Procs |-> NoLocal]
    /\ resp = [p \in Procs |-> NoResp]
    /\ new_orders_webhook = <<>>
    /\ order_updates_webhook = <<>>
    /\ backups = 0
    /\ issued = 0
    /\ onEntry = [p \in Procs |-> NoEntry]

\* --------------------------------------------------------- database writes
\* Injected DbErr of a transaction: 0 none, 1 and 2 its statements, 3 its commit.
FailPoints == 0..3

\* A failed transaction is rolled back: the tables are as when it began.
Rollback(begun, partial) == begun

\* active_model.insert(tx) of an order row (id NotSet, ref_number NotSet).
InsertOrder(db, fields) ==
    Db(db.orders \cup {[id |-> db.nextId, name |-> fields.name,
                        store_in |-> fields.store_in, ref_number |-> None]},
       db.statuses, db.nextId + 1)

\* active_model.insert(tx) of an order_status row (instance_id NotSet).
InsertStatus(db, id, status) ==
    Db(db.orders,
       db.statuses \cup {[order_id |-> id,
                          instance_id |-> NextInstanceId(db.statuses, id),
                          status |-> status]},
       db.nextId)

\* change_order's update: every descriptive column Set, ref_number NotSet.
UpdateFields(db, id, fields) ==
    Db({IF r.id = id
        THEN [r EXCEPT !.name = fields.name, !.store_in = fields.store_in]
        ELSE r : r \in db.orders},
       db.statuses, db.nextId)

\* update_order's update: ref_number Set(update_order.ref_number), the rest NotSet.
UpdateRefNumber(db, id, ref_number) ==
    Db({IF r.id = id THEN [r EXCEPT !.ref_number = ref_number] ELSE r : r \in db.orders},
       db.statuses, db.nextId)

\* order::Entity::delete_by_id(id)
DeleteOrder(db, id) ==
    Db({r \in db.orders : r.id # id}, db.statuses, db.nextId)

\* order_status::Entity::delete_many().filter(OrderId.eq(id))
DeleteStatuses(db, id) ==
    Db(db.orders, {e \in db.statuses : e.order_id # id}, db.nextId)

\* Mutant of NewOrderTx: the two inserts run outside a transaction, so a failure
\* of the second leaves the first in place.
NewOrderNoTx(db, fields, failAt) ==
    LET db1 == InsertOrder(db, fields)
        db2 == InsertStatus(db1, db.nextId, "New")
    IN  IF failAt = 1 THEN [db |-> db, result |-> "Err", id |-> 0]
        ELSE IF failAt = 2 THEN [db |-> db1, result |-> "Err", id |-> 0]
        ELSE IF failAt = 3 THEN [db |-> db2, result |-> "Err", id |-> 0]
        ELSE [db |-> db2, result |-> "Ok", id |-> db.nextId]

\* new_order's transaction: insert the order, then its New status.
NewOrderTx(db, fields, failAt) ==
    LET db1 == InsertOrder(db, fields)
        db2 == InsertStatus(db1, db.nextId, "New")
    IN  IF failAt = 1 THEN [db |-> db, result |-> "Err", id |-> 0]
        ELSE IF failAt = 2 THEN [db |-> Rollback(db, db1), result |-> "Err", id |-> 0]
        ELSE IF failAt = 3 THEN [db |-> Rollback(db, db2), result |-> "Err", id |-> 0]
        ELSE [db |-> db2, result |-> "Ok", id |-> db.nextId]

\* active_model.update(db) fails (DbErr::RecordNotUpdated) when no row has the id.
ChangeOrderUpdate(db, id, fields, err) ==
    IF err \/ find_by_id(db.orders, id) = {}
    THEN [db |-> db, result |-> "Err"]
    ELSE [db |-> UpdateFields(db, id, fields), result |-> "Ok"]

\* Mutant of ForceDeleteTx: the two deletes run outside a transaction.
ForceDeleteNoTx(db, id, failAt) ==
    LET db1 == DeleteOrder(db, id)
        db2 == DeleteStatuses(db1, id)
    IN  IF failAt = 1 THEN [db |-> db, result |-> "Err"]
        ELSE IF failAt = 2 THEN [db |-> db1, result |-> "Err"]
        ELSE IF failAt = 3 THEN [db |-> db2, result |-> "Err"]
        ELSE [db |-> db2, result |-> "Ok"]

\* cancel_order with force: delete the order and all its statuses in one transaction.
ForceDeleteTx(db, id, failAt) ==
    LET db1 == DeleteOrder(db, id)
        db2 == DeleteStatuses(db1, id)
    IN  IF failAt = 1 THEN [db |-> db, result |-> "Err"]
        ELSE IF failAt = 2 THEN [db |-> Rollback(db, db1), result |-> "Err"]
        ELSE IF failAt = 3 THEN [db |-> Rollback(db, db2), result |-> "Err"]
        ELSE [db |-> db2, result |-> "Ok"]

\* cancel_order without force: delete the order row only.
PlainDelete(db, id, err) ==
    IF err THEN [db |-> db, result |-> "Err"]
    ELSE [db |-> DeleteOrder(db, id), result |-> "Ok"]

\* Mutant of UpdateOrderTx: the insert and the update run outside a transaction.
UpdateOrderNoTx(db, id, status, ref_number, same_status, failAt) ==
    LET db1 == IF same_status THEN db ELSE InsertStatus(db, id, status)
        db2 == UpdateRefNumber(db1, id, ref_number)
    IN  IF ~same_status /\ failAt = 1 THEN [db |-> db, result |-> "Err"]
        ELSE IF failAt = 2 \/ find_by_id(db1.orders, id) = {}
             THEN [db |-> db1, result |-> "Err"]
        ELSE IF failAt = 3 THEN [db |-> db2, result |-> "Err"]
        ELSE [db |-> db2, result |-> "Ok"]

\* update_order's transaction: insert the new status unless same_status, then
\* update the order's ref_number.
UpdateOrderTx(db, id, status, ref_number, same_status, failAt) ==
    LET db1 == IF same_status THEN db ELSE InsertStatus(db, id, status)
        db2 == UpdateRefNumber(db1, id, ref_number)
    IN  IF ~same_status /\ failAt = 1 THEN [db |-> db, result |-> "Err"]
        ELSE IF failAt = 2 \/ find_by_id(db1.orders, id) = {}
             THEN [db |-> Rollback(db, db1), result |-> "Err"]
        ELSE IF failAt = 3 THEN [db |-> Rollback(db, db2), result |-> "Err"]
        ELSE [db |-> db2, result |-> "Ok"]

\* ------------------------------------------------------------ the handlers
TheDb == Db(orders, statuses, nextId)

SetDb(db) ==
    /\ orders' = db.orders
    /\ statuses' = db.statuses
    /\ nextId' = db.nextId

\* The handler returns r.
Return(p, r) ==
    /\ pc' = [pc EXCEPT ![p] = "done"]
    /\ resp' = [resp EXCEPT ![p] = r]

Goto(p, label) ==
    /\ pc' = [pc EXCEPT ![p] = label]
    /\ UNCHANGED resp

NoSideEffects == UNCHANGED <<new_orders_webhook, order_updates_webhook, backups>>
NoWrites == UNCHANGED <<orders, statuses, nextId>>

Requests ==
    [op : {"new_order"}, id : {0}, force : {FALSE}, status : {"New"},
     ref_number : {None}, fields : Fields]
    \cup [op : {"change_order"}, id : IDs, force : {FALSE}, status : {"New"},
          ref_number : {None}, fields : Fields]
    \cup [op : {"cancel_order"}, id : IDs, force : BOOLEAN, status : {"New"},
          ref_number : {None}, fields : {NoReq.fields}]
    \cup [op : {"update_order"}, id : IDs, force : {FALSE}, status : Status,
          ref_number : RefNumbers, fields : {NoReq.fields}]

FirstStep(op) ==
    CASE op = "new_order" -> "new_order_tx"
      [] op = "change_order" -> "change_order_find"
      [] op = "cancel_order" -> "cancel_order_find"
      [] op = "update_order" -> "update_order_find"

\* The router hands a request to its handler (router, lines 396-403).  `record`
\* says whether the history onEntry is kept: it is in serial runs, where what a
\* request found on arrival is what its handler works on.
Accept(p, r, record) ==
    /\ pc[p] = "idle"
    /\ issued < MaxRequests
    /\ r.op = "new_order" => nextId <= MaxOrders
    /\ issued' = issued + 1
    /\ req' = [req EXCEPT ![p] = r]
    /\ local' = [local EXCEPT ![p] = NoLocal]
    /\ pc' = [pc EXCEPT ![p] = FirstStep(r.op)]
    /\ resp' = [resp EXCEPT ![p] = NoResp]
    /\ onEntry' = [onEntry EXCEPT ![p] =
                       IF record
                       THEN Snapshot(TheDb, backups, Len(new_orders_webhook),
                                     Len(order_updates_webhook))
                       ELSE NoEntry]
    /\ NoWrites /\ NoSideEffects

\* The response leaves the handler; its task ends and the slot is free again.
Respond(p) ==
    /\ pc[p] = "done"
    /\ pc' = [pc EXCEPT ![p] = "idle"]
    /\ req' = [req EXCEPT ![p] = NoReq]
    /\ local' = [local EXCEPT ![p] = NoLocal]
    /\ resp' = [resp EXCEPT ![p] = NoResp]
    /\ onEntry' = [onEntry EXCEPT ![p] = NoEntry]
    /\ NoWrites /\ NoSideEffects /\ UNCHANGED issued

\* new_order, lines 38-79: compose the message, run the transaction.
new_order_tx(p) ==
    /\ pc[p] = "new_order_tx"
    /\ \E failAt \in FailPoints :
         LET t == NewOrderTx(TheDb, req[p].fields, failAt)
         IN  /\ SetDb(t.db)
             /\ local' = [local EXCEPT ![p].result = t.result,
                                       ![p].fault = (failAt # 0),
                                       ![p].webhook_msg =
                                           [title |-> "New Order!",
                                            name |-> req[p].fields.name,
                                            location |-> ""]]
             /\ req' = [req EXCEPT ![p].id = t.id]
    /\ Goto(p, "new_order_match")
    /\ NoSideEffects /\ UNCHANGED <<issued, onEntry>>

\* new_order, lines 81-94: match result.
new_order_match(p) ==
    /\ pc[p] = "new_order_match"
    /\ IF local[p].result = "Ok"
       THEN /\ backups' = backups + 1
            /\ new_orders_webhook' =
                   Append(new_orders_webhook, <<req[p].id, local[p].webhook_msg>>)
            /\ Return(p, OK)
       ELSE /\ UNCHANGED <<backups, new_orders_webhook>>
            /\ Return(p, INTERNAL_SERVER_ERROR)
    /\ NoWrites /\ UNCHANGED <<order_updates_webhook, req, local, issued, onEntry>>

\* change_order, lines 115-133: read the latest status of the order.
change_order_find(p) ==
    /\ pc[p] = "change_order_find"
    /\ \E err \in BOOLEAN :
         LET model == LatestStatus(statuses, req[p].id)
         IN  IF err THEN /\ Return(p, INTERNAL_SERVER_ERROR)
                         /\ local' = [local EXCEPT ![p].fault = TRUE]
             ELSE IF model = None
                  THEN Return(p, BAD_REQUEST("Order not found")) /\ UNCHANGED local
             ELSE /\ local' = [local EXCEPT ![p].model = {e.status : e \in model}]
                  /\ IF \E e \in model : e.status # "New"
                     THEN Return(p, BAD_REQUEST("Order has already been processed"))
                     ELSE Goto(p, "change_order_update")
    /\ NoWrites /\ NoSideEffects /\ UNCHANGED <<req, issued, onEntry>>

\* change_order, lines 134-157: compose the message, update the order row.
change_order_update(p) ==
    /\ pc[p] = "change_order_update"
    /\ \E err \in BOOLEAN :
         LET u == ChangeOrderUpdate(TheDb, req[p].id, req[p].fields, err)
         IN  /\ SetDb(u.db)
             /\ local' = [local EXCEPT ![p].result = u.result,
                                       ![p].fault = err,
                                       ![p].webhook_msg =
                                           [title |-> "Order Changed",
                                            name |-> req[p].fields.name,
                                            location |-> ""]]
    /\ Goto(p, "change_order_match")
    /\ NoSideEffects /\ UNCHANGED <<req, issued, onEntry>>

\* Mutant of change_order_match: backup_db is not called.
change_order_match_no_backup(p) ==
    /\ pc[p] = "change_order_match"
    /\ IF local[p].result = "Err"
       THEN /\ UNCHANGED new_orders_webhook
            /\ Return(p, INTERNAL_SERVER_ERROR)
       ELSE /\ new_orders_webhook' =
                   Append(new_orders_webhook, <<req[p].id, local[p].webhook_msg>>)
            /\ Return(p, OK)
    /\ NoWrites /\ UNCHANGED <<backups, order_updates_webhook, req, local, issued, onEntry>>

\* change_order, lines 157-167.
change_order_match(p) ==
    /\ pc[p] = "change_order_match"
    /\ IF local[p].result = "Err"
       THEN /\ UNCHANGED <<backups, new_orders_webhook>>
            /\ Return(p, INTERNAL_SERVER_ERROR)
       ELSE /\ backups' = backups + 1
            /\ new_orders_webhook' =
                   Append(new_orders_webhook, <<req[p].id, local[p].webhook_msg>>)
            /\ Return(p, OK)
    /\ NoWrites /\ UNCHANGED <<order_updates_webhook, req, local, issued, onEntry>>

\* cancel_order, lines 184-193 and 207-214: read the latest status of the order.
cancel_order_find(p) ==
    /\ pc[p] = "cancel_order_find"
    /\ \E err \in BOOLEAN :
         LET model == LatestStatus(statuses, req[p].id)
         IN  IF err THEN /\ Return(p, INTERNAL_SERVER_ERROR)
                         /\ local' = [local EXCEPT ![p].fault = TRUE]
             ELSE IF model = None
                  THEN Return(p, BAD_REQUEST("Order not found")) /\ UNCHANGED local
             ELSE /\ local' = [local EXCEPT ![p].model = {e.status : e \in model}]
                  /\ IF ~req[p].force /\ \E e \in model : e.status # "New"
                     THEN Return(p, BAD_REQUEST("Order has already been processed"))
                     ELSE Goto(p, "cancel_order_find_order")
    /\ NoWrites /\ NoSideEffects /\ UNCHANGED <<req, issued, onEntry>>

\* cancel_order, lines 194-205: read the order row, compose the message.
cancel_order_find_order(p) ==
    /\ pc[p] = "cancel_order_find_order"
    /\ \E err \in BOOLEAN :
         LET model == find_by_id(orders, req[p].id)
         IN  IF err THEN /\ Return(p, INTERNAL_SERVER_ERROR)
                         /\ local' = [local EXCEPT ![p].fault = TRUE]
             ELSE IF model = None THEN Return(p, PANIC) /\ UNCHANGED local
             ELSE /\ local' = [local EXCEPT ![p].webhook_msg =
                                  [title |-> "Order Cancelled",
                                   name |-> (CHOOSE r \in model : TRUE).name,
                                   location |-> ""]]
                  /\ Goto(p, "cancel_order_delete")
    /\ NoWrites /\ NoSideEffects /\ UNCHANGED <<req, issued, onEntry>>

\* cancel_order, lines 216-235: the delete, in a transaction when forced.
cancel_order_delete(p) ==
    /\ pc[p] = "cancel_order_delete"
    /\ \E failAt \in FailPoints :
         LET d == IF req[p].force
                  THEN ForceDeleteTx(TheDb, req[p].id, failAt)
                  ELSE PlainDelete(TheDb, req[p].id, failAt # 0)
         IN  /\ SetDb(d.db)
             /\ local' = [local EXCEPT ![p].result = d.result,
                                       ![p].fault = (failAt # 0)]
    /\ Goto(p, "cancel_order_match")
    /\ NoSideEffects /\ UNCHANGED <<req, issued, onEntry>>

\* Mutant of cancel_order_match: the message is enqueued before the result of
\* the delete is looked at.
cancel_order_match_enqueue_first(p) ==
    /\ pc[p] = "cancel_order_match"
    /\ new_orders_webhook' =
           Append(new_orders_webhook, <<req[p].id, local[p].webhook_msg>>)
    /\ IF local[p].result = "Err"
       THEN /\ UNCHANGED backups
            /\ Return(p, INTERNAL_SERVER_ERROR)
       ELSE /\ backups' = backups + 1
            /\ Return(p, OK)
    /\ NoWrites /\ UNCHANGED <<order_updates_webhook, req, local, issued, onEntry>>

\* cancel_order, lines 231-246.
cancel_order_match(p) ==
    /\ pc[p] = "cancel_order_match"
    /\ IF local[p].result = "Err"
       THEN /\ UNCHANGED <<backups, new_orders_webhook>>
            /\ Return(p, INTERNAL_SERVER_ERROR)
       ELSE /\ new_orders_webhook' =
                   Append(new_orders_webhook, <<req[p].id, local[p].webhook_msg>>)
            /\ backups' = backups + 1
            /\ Return(p, OK)
    /\ NoWrites /\ UNCHANGED <<order_updates_webhook, req, local, issued, onEntry>>

\* Mutant of UpdateOrderCheck: the ref_number.is_none() check is missing.
UpdateOrderCheckNoRef(status, target, ref_number) ==
    IF status = "InStorage" THEN "in_storage"
    ELSE IF status = target THEN "same_status"
    ELSE "advance"

\* Mutant of UpdateOrderCheck: the same-status check comes before the InStorage check.
UpdateOrderCheckSameFirst(status, target, ref_number) ==
    IF status = target
    THEN IF ref_number = None THEN "in_that_state" ELSE "same_status"
    ELSE IF status = "InStorage" THEN "in_storage"
    ELSE "advance"

\* update_order, lines 271-279: the checks on the status read.
UpdateOrderCheck(status, target, ref_number) ==
    IF status = "InStorage" THEN "in_storage"
    ELSE IF status = target
         THEN IF ref_number = None THEN "in_that_state" ELSE "same_status"
    ELSE "advance"

\* update_order, lines 264-279 and 310-317: read the latest status, validate.
update_order_find(p) ==
    /\ pc[p] = "update_order_find"
    /\ \E err \in BOOLEAN :
         LET model == LatestStatus(statuses, req[p].id)
         IN  IF err THEN /\ Return(p, INTERNAL_SERVER_ERROR)
                         /\ local' = [local EXCEPT ![p].fault = TRUE]
             ELSE IF model = None
                  THEN Return(p, BAD_REQUEST("Order not found")) /\ UNCHANGED local
             ELSE LET status == (CHOOSE e \in model : TRUE).status
                      check == UpdateOrderCheck(status, req[p].status, req[p].ref_number)
                  IN  /\ local' = [local EXCEPT
                                       ![p].model = {status},
                                       ![p].same_status = (check = "same_status")]
                      /\ IF check = "in_storage"
                         THEN Return(p, BAD_REQUEST("Order is already in storage"))
                         ELSE IF check = "in_that_state"
                         THEN Return(p, BAD_REQUEST("Order is already in that state"))
                         ELSE Goto(p, "update_order_find_order")
    /\ NoWrites /\ NoSideEffects /\ UNCHANGED <<req, issued, onEntry>>

\* update_order, lines 280-308: read the order row, compose the message.
update_order_find_order(p) ==
    /\ pc[p] = "update_order_find_order"
    /\ \E err \in BOOLEAN :
         LET model == find_by_id(orders, req[p].id)
         IN  IF err THEN /\ Return(p, INTERNAL_SERVER_ERROR)
                         /\ local' = [local EXCEPT ![p].fault = TRUE]
             ELSE IF model = None THEN Return(p, PANIC) /\ UNCHANGED local
             ELSE LET m == CHOOSE r \in model : TRUE
                  IN  /\ local' = [local EXCEPT ![p].webhook_msg =
                             IF req[p].status = "InStorage"
                             THEN [title |-> "Order Complete!", name |-> m.name,
                                   location |-> m.store_in]
                             ELSE [title |-> "Order Update!", name |-> m.name,
                                   location |-> ""]]
                      /\ Goto(p, "update_order_tx")
    /\ NoWrites /\ NoSideEffects /\ UNCHANGED <<req, issued, onEntry>>

\* update_order, lines 319-352: the transaction.
update_order_tx(p) ==
    /\ pc[p] = "update_order_tx"
    /\ \E failAt \in FailPoints :
         LET t == UpdateOrderTx(TheDb, req[p].id, req[p].status, req[p].ref_number,
                                local[p].same_status, failAt)
         IN  /\ SetDb(t.db)
             /\ local' = [local EXCEPT ![p].result = t.result,
                                       ![p].fault = (failAt # 0 /\ t.result = "Err")]
    /\ Goto(p, "update_order_match")
    /\ NoSideEffects /\ UNCHANGED <<req, issued, onEntry>>

\* update_order, lines 354-366.
update_order_match(p) ==
    /\ pc[p] = "update_order_match"
    /\ IF local[p].result = "Err"
       THEN /\ UNCHANGED <<backups, order_updates_webhook>>
            /\ Return(p, INTERNAL_SERVER_ERROR)
       ELSE /\ order_updates_webhook' =
                   IF ~local[p].same_status
                   THEN Append(order_updates_webhook, <<req[p].id, local[p].webhook_msg>>)
                   ELSE order_updates_webhook
            /\ backups' = backups + 1
            /\ Return(p, OK)
    /\ NoWrites /\ UNCHANGED <<new_orders_webhook, req, local, issued, onEntry>>

\* ------------------------------------------------------- the specifications
Running(p) == pc[p] # "idle"

\* Handlers run concurrently, interleaved at their database calls.
AcceptRequest == \E p \in Procs : \E r \in Requests : Accept(p, r, FALSE)
NewOrderTxStep == \E p \in Procs : new_order_tx(p)
NewOrderMatch == \E p \in Procs : new_order_match(p)
ChangeOrderFind == \E p \in Procs : change_order_find(p)
ChangeOrderUpdateStep == \E p \in Procs : change_order_update(p)
ChangeOrderMatch == \E p \in Procs : change_order_match(p)
CancelOrderFind == \E p \in Procs : cancel_order_find(p)
CancelOrderFindOrder == \E p \in Procs : cancel_order_find_order(p)
CancelOrderDelete == \E p \in Procs : cancel_order_delete(p)
CancelOrderMatch == \E p \in Procs : cancel_order_match(p)
UpdateOrderFind == \E p \in Procs : update_order_find(p)
UpdateOrderFindOrder == \E p \in Procs : update_order_find_order(p)
UpdateOrderTxStep == \E p \in Procs : update_order_tx(p)
UpdateOrderMatch == \E p \in Procs : update_order_match(p)
SendResponse == \E p \in Procs : Respond(p)

HandlerStep ==
    \/ NewOrderTxStep \/ NewOrderMatch
    \/ ChangeOrderFind \/ ChangeOrderUpdateStep \/ ChangeOrderMatch
    \/ CancelOrderFind \/ CancelOrderFindOrder \/ CancelOrderDelete \/ CancelOrderMatch
    \/ UpdateOrderFind \/ UpdateOrderFindOrder \/ UpdateOrderTxStep \/ UpdateOrderMatch
    \/ SendResponse

Next == AcceptRequest \/ HandlerStep

Spec == Init /\ [][Next]_vars

\* One request at a time: a handler is accepted only when no other is running.
AcceptSerial ==
    \E p \in Procs : \E r \in Requests :
        /\ \A q \in Procs : ~Running(q)
        /\ Accept(p, r, TRUE)

NextSerial == AcceptSerial \/ HandlerStep

SpecSerial == Init /\ [][NextSerial]_vars

\* ------------------------------------------------------------------ claims
\* The status of the row LatestStatus returns: the current status of an order.
CurrentStatus(s, id) == {e.status : e \in LatestStatus(s, id)}

\* Handler p has returned from a request of kind op.
Done(p, op) == pc[p] = "done" /\ req[p].op = op

\* The tables are as handler p's request found them.
Untouched(p) == orders = onEntry[p].orders /\ statuses = onEntry[p].statuses

\* Neither webhook got a message and no backup was triggered since p's request arrived.
Silent(p) ==
    /\ backups = onEntry[p].backups
    /\ Len(new_orders_webhook) = onEntry[p].new_orders
    /\ Len(order_updates_webhook) = onEntry[p].order_updates

NotFound == BAD_REQUEST("Order not found")
AlreadyProcessed == BAD_REQUEST("Order has already been processed")
AlreadyInStorage == BAD_REQUEST("Order is already in storage")
AlreadyInThatState == BAD_REQUEST("Order is already in that state")

\* C1: once InStorage is the current status of an order, no StatusEvent of that
\* order is appended any more (under any interleaving of the handlers).
InStorageIsLast ==
    [][\A id \in IDs :
          CurrentStatus(statuses, id) = {"InStorage"}
              => StatusesOf(statuses', id) \subseteq StatusesOf(statuses, id)]_vars

\* C2: operations on one order are serializable.  In every serial run an advance
\* appends a StatusEvent only when its target differs from the current status, so
\* no order has two successive events of the same status; two concurrent advance
\* calls with the same target and no ref_number never both append.
NoDoubleAppend ==
    \A e \in statuses : \A f \in statuses :
        (f.order_id = e.order_id /\ f.instance_id = e.instance_id + 1)
            => f.status # e.status

\* C3: create is all-or-nothing.  After the transaction of new_order, a success
\* has added exactly one order row (ref_number absent) and exactly one
\* StatusEvent for it (New, instance_id 1); a failure has added nothing.
CreateAllOrNothing ==
    \A p \in Procs :
        (req[p].op = "new_order" /\ pc[p] \in {"new_order_match", "done"}) =>
            IF local[p].result = "Ok"
            THEN LET row == [id |-> req[p].id, name |-> req[p].fields.name,
                             store_in |-> req[p].fields.store_in, ref_number |-> None]
                     event == [order_id |-> req[p].id, instance_id |-> 1, status |-> "New"]
                 IN  /\ find_by_id(onEntry[p].orders, req[p].id) = {}
                     /\ StatusesOf(onEntry[p].statuses, req[p].id) = {}
                     /\ orders = onEntry[p].orders \cup {row}
                     /\ statuses = onEntry[p].statuses \cup {event}
                     /\ pc[p] = "done" => resp[p] = OK
            ELSE /\ Untouched(p)
                 /\ pc[p] = "done" => resp[p] = INTERNAL_SERVER_ERROR

\* C3 witness: a create failed after an earlier create had succeeded.
CreateFailedAfterCreate ==
    \E p \in Procs :
        /\ Done(p, "new_order") /\ resp[p] = INTERNAL_SERVER_ERROR
        /\ orders # {}

\* C4: amend succeeds iff the current status of the order is New; otherwise it
\* fails and changes no order row and no StatusEvent.
AmendIffNew ==
    \A p \in Procs :
        (Done(p, "change_order") /\ ~local[p].fault) =>
            /\ resp[p] = OK <=> CurrentStatus(onEntry[p].statuses, req[p].id) = {"New"}
            /\ resp[p] # OK => Untouched(p)

\* C5: cancel without force succeeds iff the current status is New; a success
\* deletes the order row only and keeps every StatusEvent; with another current
\* status it answers "already processed" and removes nothing.
CancelIffNew ==
    \A p \in Procs :
        (Done(p, "cancel_order") /\ ~req[p].force /\ ~local[p].fault) =>
            LET cur == CurrentStatus(onEntry[p].statuses, req[p].id)
            IN  /\ resp[p] = OK <=> cur = {"New"}
                /\ resp[p] = OK =>
                       /\ orders = {r \in onEntry[p].orders : r.id # req[p].id}
                       /\ statuses = onEntry[p].statuses
                /\ (cur # None /\ cur # {"New"}) =>
                       resp[p] = AlreadyProcessed /\ Untouched(p)

\* C6: cancel with force on an existing order succeeds whatever the current
\* status and removes the order row and all its StatusEvents together; if the
\* transaction fails, the row and the events all remain.
ForceCancelRemovesAll ==
    \A p \in Procs :
        (Done(p, "cancel_order") /\ req[p].force
           /\ find_by_id(onEntry[p].orders, req[p].id) # {}) =>
            IF resp[p] = OK
            THEN /\ orders = {r \in onEntry[p].orders : r.id # req[p].id}
                 /\ statuses = {e \in onEntry[p].statuses : e.order_id # req[p].id}
            ELSE /\ local[p].fault
                 /\ resp[p] = INTERNAL_SERVER_ERROR
                 /\ Untouched(p)

\* C6 witness: a forced cancel of an order in storage has succeeded.
ForceCancelledInStorage ==
    \E p \in Procs :
        /\ Done(p, "cancel_order") /\ req[p].force /\ resp[p] = OK
        /\ find_by_id(onEntry[p].orders, req[p].id) # {}
        /\ CurrentStatus(onEntry[p].statuses, req[p].id) = {"InStorage"}
        /\ StatusesOf(statuses, req[p].id) = {}

\* C7: amend, cancel and advance on an id without an order row answer "not
\* found" and change nothing.
NotFoundWithoutRow ==
    \A p \in Procs :
        (pc[p] = "done" /\ req[p].op \in {"change_order", "cancel_order", "update_order"}
           /\ find_by_id(onEntry[p].orders, req[p].id) = {} /\ ~local[p].fault) =>
            resp[p] = NotFound /\ Untouched(p)

\* C8: advance to a target other than the current status, the current status
\* not being InStorage, appends exactly one StatusEvent: the target, with the
\* next instance_id, which then is the current status.
AdvanceAppendsOne ==
    \A p \in Procs :
        LET id == req[p].id
            cur == CurrentStatus(onEntry[p].statuses, id)
        IN  (Done(p, "update_order") /\ ~local[p].fault
               /\ cur # None /\ cur # {req[p].status} /\ cur # {"InStorage"}) =>
                LET event == [order_id |-> id,
                              instance_id |-> NextInstanceId(onEntry[p].statuses, id),
                              status |-> req[p].status]
                IN  /\ event \notin onEntry[p].statuses
                    /\ statuses = onEntry[p].statuses \cup {event}
                    /\ CurrentStatus(statuses, id) = {req[p].status}
                    /\ \A e \in StatusesOf(onEntry[p].statuses, id) :
                           e.instance_id < event.instance_id

\* C9: advance with a ref_number to the current status (not InStorage) sets the
\* order's ref_number, appends no StatusEvent, changes nothing else of the order
\* and enqueues no status notification.
SameStatusAmend ==
    \A p \in Procs :
        LET id == req[p].id
            cur == CurrentStatus(onEntry[p].statuses, id)
        IN  (Done(p, "update_order") /\ ~local[p].fault
               /\ cur = {req[p].status} /\ cur # {"InStorage"}
               /\ req[p].ref_number # None) =>
                /\ resp[p] = OK
                /\ statuses = onEntry[p].statuses
                /\ \E r \in find_by_id(onEntry[p].orders, id) :
                       orders = (onEntry[p].orders \ {r})
                                    \cup {[r EXCEPT !.ref_number = req[p].ref_number]}
                /\ Len(order_updates_webhook) = onEntry[p].order_updates

\* C10 as stated: advance without ref_number to the current status answers "already
\* in that state" and writes nothing, enqueues nothing, triggers no backup.
SameStatusNoRefInThatState ==
    \A p \in Procs :
        (Done(p, "update_order") /\ ~local[p].fault
           /\ CurrentStatus(onEntry[p].statuses, req[p].id) = {req[p].status}
           /\ req[p].ref_number = None) =>
            resp[p] = AlreadyInThatState /\ Untouched(p) /\ Silent(p)

\* C10 amended: advance without ref_number to the current status answers a
\* Conflict, "already in storage" when that status is InStorage and "already in
\* that state" otherwise, and writes nothing, enqueues nothing, triggers no backup.
SameStatusNoRefConflict ==
    \A p \in Procs :
        (Done(p, "update_order") /\ ~local[p].fault
           /\ CurrentStatus(onEntry[p].statuses, req[p].id) = {req[p].status}
           /\ req[p].ref_number = None) =>
            /\ resp[p] = IF req[p].status = "InStorage"
                         THEN AlreadyInStorage ELSE AlreadyInThatState
            /\ Untouched(p) /\ Silent(p)

\* C10 witness: an advance to the current status Ordered, without ref_number, of
\* an order that has a ref_number was refused.
RefusedSameStatusNoRef ==
    \E p \in Procs :
        /\ Done(p, "update_order") /\ req[p].ref_number = None
        /\ req[p].status = "Ordered"
        /\ CurrentStatus(onEntry[p].statuses, req[p].id) = {"Ordered"}
        /\ \E r \in find_by_id(orders, req[p].id) : r.ref_number # None
        /\ resp[p] = AlreadyInThatState

\* C11: the descriptive fields of an order row change only while the current
\* status of that order is New (under any interleaving of amend and advance).
FieldsChangeOnlyWhileNew ==
    [][\A r \in orders : \A w \in orders' :
          (w.id = r.id /\ (w.name # r.name \/ w.store_in # r.store_in))
              => CurrentStatus(statuses, r.id) = {"New"}]_vars

\* C12: a status-changing advance sets the order's ref_number only when one is
\* supplied and keeps the stored ref_number otherwise; it changes no other field
\* of the order.
AdvanceKeepsRefWhenAbsent ==
    \A p \in Procs :
        (Done(p, "update_order") /\ resp[p] = OK /\ ~local[p].same_status) =>
            \E r \in find_by_id(onEntry[p].orders, req[p].id) :
                orders = (onEntry[p].orders \ {r})
                             \cup {[r EXCEPT !.ref_number =
                                       IF req[p].ref_number = None
                                       THEN r.ref_number ELSE req[p].ref_number]}

\* C13: the writes of one advance are atomic.  The transaction of update_order
\* either fails and leaves both tables as they were, or commits the ref_number
\* update of an existing order row together with the new StatusEvent (none for
\* a same-status amend): no StatusEvent is appended without the order update.
AdvanceWritesAtomic ==
    [][\A p \in Procs :
          (pc[p] = "update_order_tx" /\ pc'[p] = "update_order_match") =>
              IF local'[p].result = "Err"
              THEN orders' = orders /\ statuses' = statuses
              ELSE /\ find_by_id(orders, req[p].id) # {}
                   /\ orders' = UpdateRefNumber(TheDb, req[p].id, req[p].ref_number).orders
                   /\ statuses' = IF local[p].same_status THEN statuses
                                  ELSE InsertStatus(TheDb, req[p].id, req[p].status).statuses]_vars

\* C13 witness: the transaction of an advance that was to append a StatusEvent
\* failed because the order row was deleted after the advance had read it; no
\* DbErr was injected, and the order has no StatusEvent.
AdvanceFailedRowGone ==
    \E p \in Procs :
        /\ pc[p] = "update_order_match" /\ ~local[p].same_status
        /\ local[p].result = "Err" /\ ~local[p].fault
        /\ find_by_id(orders, req[p].id) = {}
        /\ StatusesOf(statuses, req[p].id) = {}

\* The last step of a handler that reached its write: it looks at the result.
MatchSteps == {"new_order_match", "change_order_match", "cancel_order_match",
               "update_order_match"}
Matches(p) == pc[p] \in MatchSteps /\ pc'[p] = "done"

\* C14: notifications are post-commit only.  A message is enqueued only by the
\* step that follows a handler's write, and only when the write committed: then
\* create, amend and cancel enqueue exactly one message on the lifecycle channel
\* and a status-changing advance exactly one on the status channel, and the
\* handler answers OK; after a failed write, and in every other step (NotFound,
\* Conflict, DbErr on a read), nothing is enqueued on either channel.
NotifyAfterCommitOnly ==
    [][/\ \A p \in Procs :
            Matches(p) =>
                LET msg == <<req[p].id, local[p].webhook_msg>>
                IN  IF local[p].result = "Ok"
                    THEN /\ resp'[p] = OK
                         /\ new_orders_webhook' =
                                IF req[p].op = "update_order" THEN new_orders_webhook
                                ELSE Append(new_orders_webhook, msg)
                         /\ order_updates_webhook' =
                                IF req[p].op = "update_order" /\ ~local[p].same_status
                                THEN Append(order_updates_webhook, msg)
                                ELSE order_updates_webhook
                         /\ orders' = orders /\ statuses' = statuses
                    ELSE /\ resp'[p] = INTERNAL_SERVER_ERROR
                         /\ new_orders_webhook' = new_orders_webhook
                         /\ order_updates_webhook' = order_updates_webhook
       /\ (\A p \in Procs : ~Matches(p)) =>
            /\ new_orders_webhook' = new_orders_webhook
            /\ order_updates_webhook' = order_updates_webhook
            /\ \A p \in Procs : resp'[p] # resp[p] => resp'[p] # OK]_vars

\* C14 witness: a status-changing advance has answered OK with its one message
\* on the status channel, after a create's message on the lifecycle channel,
\* and a cancel that failed has left no message.
NotifiedOnceEach ==
    \E p \in Procs : \E q \in Procs :
        /\ Done(p, "update_order") /\ resp[p] = OK /\ ~local[p].same_status
        /\ order_updates_webhook = <<<<req[p].id, local[p].webhook_msg>>>>
        /\ Len(new_orders_webhook) = 1
        /\ new_orders_webhook[1][2].title = "New Order!"
        /\ Done(q, "cancel_order") /\ resp[q] = INTERNAL_SERVER_ERROR

\* C15: the backup trigger fires after every successful mutating operation and
\* never for a failed one.  backup_db is called once by the step that follows a
\* committed write (create, amend, cancel, advance, same-status amend), the
\* handler then answering OK, and by no other step.
BackupAfterSuccessOnly ==
    [][/\ \A p \in Procs :
            Matches(p) =>
                /\ backups' = IF local[p].result = "Ok" THEN backups + 1 ELSE backups
                /\ resp'[p] = OK <=> local[p].result = "Ok"
       /\ (\A p \in Procs : ~Matches(p)) => backups' = backups]_vars

\* C15 witness: a same-status amend has answered OK and its backup was the
\* second one, after the create's; an amend that failed has triggered none.
BackedUpTwice ==
    \E p \in Procs : \E q \in Procs :
        /\ Done(p, "update_order") /\ resp[p] = OK /\ local[p].same_status
        /\ Done(q, "change_order") /\ resp[q] # OK
        /\ backups = 2

FindSteps == {"change_order_find", "cancel_order_find", "update_order_find"}

\* C16: in every interleaving, no two StatusEvents of one order share an
\* instance_id, an appended event's instance_id is greater than that of every
\* event the order already has, and the status an operation reads is the status
\* of the event with the greatest instance_id at the time of the read.
InstanceIdsOrdered ==
    [][/\ \A e \in statuses' : \A f \in statuses' :
            (e.order_id = f.order_id /\ e.instance_id = f.instance_id) => e = f
       /\ \A e \in statuses' \ statuses : \A f \in statuses :
            f.order_id = e.order_id => f.instance_id < e.instance_id
       /\ \A p \in Procs :
            (pc[p] \in FindSteps /\ pc'[p] # pc[p] /\ local'[p].model # None) =>
                \E e \in statuses :
                    /\ e.order_id = req[p].id
                    /\ local'[p].model = {e.status}
                    /\ \A f \in statuses :
                         (f.order_id = e.order_id /\ f # e) => f.instance_id < e.instance_id]_vars

\* C16 witness: an order has the events 1 (New) and 2 (not New), and an advance
\* that has appended nothing yet has read the status of event 2.
ReadLatestOfTwo ==
    \E p \in Procs :
        /\ pc[p] = "update_order_find_order"
        /\ Cardinality(StatusesOf(statuses, req[p].id)) = 2
        /\ \E e \in StatusesOf(statuses, req[p].id) :
             e.instance_id = 2 /\ e.status # "New" /\ local[p].model = {e.status}

\* C17: every call that has ended has returned success or a reported failure
\* (not found, one of the conflicts, or a storage failure) to its caller.
CallEndsInResult ==
    \A p \in Procs :
        pc[p] = "done" =>
            resp[p] \in {OK, INTERNAL_SERVER_ERROR, NotFound, AlreadyProcessed,
                         AlreadyInStorage, AlreadyInThatState}

\* C18: advance with target InStorage and a ref_number, the current status being
\* InStorage, is refused as already in storage; ref_number and everything else
\* stay as they were.
TerminalBeforeSameStatus ==
    \A p \in Procs :
        (Done(p, "update_order") /\ ~local[p].fault
           /\ CurrentStatus(onEntry[p].statuses, req[p].id) = {"InStorage"}
           /\ req[p].status = "InStorage" /\ req[p].ref_number # None) =>
            resp[p] = AlreadyInStorage /\ Untouched(p) /\ Silent(p)

\* C18 witness: such a call was refused for an order whose row exists and whose
\* ref_number differs from the one supplied.
RefusedInStorageWithRef ==
    \E p \in Procs :
        /\ Done(p, "update_order") /\ resp[p] = AlreadyInStorage
        /\ req[p].status = "InStorage" /\ req[p].ref_number # None
        /\ CurrentStatus(statuses, req[p].id) = {"InStorage"}
        /\ \E r \in find_by_id(orders, req[p].id) : r.ref_number # req[p].ref_number

\* C19: a handler that found a latest StatusEvent for an id finds the order row
\* of that id when it looks it up next, so that no unreachable!() is executed.
RowFoundAfterStatus ==
    \A p \in Procs :
        /\ pc[p] \in {"cancel_order_find_order", "update_order_find_order"} =>
               find_by_id(orders, req[p].id) # {}
        /\ resp[p] # PANIC

\* C20: in every interleaving, every order row has at least one StatusEvent, and
\* the one with the smallest instance_id has status New.
RowHasNewFirst ==
    \A r \in orders :
        \E e \in StatusesOf(statuses, r.id) :
            /\ e.status = "New"
            /\ \A f \in StatusesOf(statuses, r.id) : e.instance_id <= f.instance_id

\* C20 witness: two order rows, one of them with several events, the latest of
\* which is not New.
RowsWithHistory ==
    /\ \E r \in orders :
         /\ Cardinality(StatusesOf(statuses, r.id)) >= 2
         /\ CurrentStatus(statuses, r.id) # {"New"}
    /\ Cardinality(orders) = 2

\* ------------------------------------------- the same, the order row present
\* The request of handler p found the order row of its id.
HasRow(p) == find_by_id(onEntry[p].orders, req[p].id) # {}

\* C4, for ids whose order row exists: there amend behaves as claimed.
AmendIffNewWithRow ==
    \A p \in Procs :
        (Done(p, "change_order") /\ ~local[p].fault /\ HasRow(p)) =>
            /\ resp[p] = OK <=> CurrentStatus(onEntry[p].statuses, req[p].id) = {"New"}
            /\ resp[p] # OK => Untouched(p)
            /\ resp[p] = OK =>
                   /\ statuses = onEntry[p].statuses
                   /\ \E r \in find_by_id(onEntry[p].orders, req[p].id) :
                          orders = (onEntry[p].orders \ {r})
                                       \cup {[r EXCEPT !.name = req[p].fields.name,
                                                       !.store_in = req[p].fields.store_in]}

\* C5, for ids whose order row exists.
CancelIffNewWithRow ==
    \A p \in Procs :
        (Done(p, "cancel_order") /\ ~req[p].force /\ ~local[p].fault /\ HasRow(p)) =>
            LET cur == CurrentStatus(onEntry[p].statuses, req[p].id)
            IN  /\ resp[p] = OK <=> cur = {"New"}
                /\ resp[p] = OK =>
                       /\ orders = {r \in onEntry[p].orders : r.id # req[p].id}
                       /\ statuses = onEntry[p].statuses
                /\ (cur # None /\ cur # {"New"}) =>
                       resp[p] = AlreadyProcessed /\ Untouched(p)

\* C7, for ids that have no StatusEvent either.
NotFoundWithoutRowAndEvents ==
    \A p \in Procs :
        (pc[p] = "done" /\ req[p].op \in {"change_order", "cancel_order", "update_order"}
           /\ ~HasRow(p) /\ StatusesOf(onEntry[p].statuses, req[p].id) = {}
           /\ ~local[p].fault) =>
            resp[p] = NotFound /\ Untouched(p)

\* C8, for ids whose order row exists.
AdvanceAppendsOneWithRow ==
    \A p \in Procs :
        LET id == req[p].id
            cur == CurrentStatus(onEntry[p].statuses, id)
        IN  (Done(p, "update_order") /\ ~local[p].fault /\ HasRow(p)
               /\ cur # None /\ cur # {req[p].status} /\ cur # {"InStorage"}) =>
                LET event == [order_id |-> id,
                              instance_id |-> NextInstanceId(onEntry[p].statuses, id),
                              status |-> req[p].status]
                IN  /\ resp[p] = OK
                    /\ event \notin onEntry[p].statuses
                    /\ statuses = onEntry[p].statuses \cup {event}
                    /\ CurrentStatus(statuses, id) = {req[p].status}

\* C9, for ids whose order row exists.
SameStatusAmendWithRow ==
    \A p \in Procs :
        LET id == req[p].id
            cur == CurrentStatus(onEntry[p].statuses, id)
        IN  (Done(p, "update_order") /\ ~local[p].fault /\ HasRow(p)
               /\ cur = {req[p].status} /\ cur # {"InStorage"}
               /\ req[p].ref_number # None) =>
                /\ resp[p] = OK
                /\ statuses = onEntry[p].statuses
                /\ \E r \in find_by_id(onEntry[p].orders, id) :
                       orders = (onEntry[p].orders \ {r})
                                    \cup {[r EXCEPT !.ref_number = req[p].ref_number]}
                /\ Len(order_updates_webhook) = onEntry[p].order_updates

\* C12, what update_order does: a status-changing advance writes the request's
\* ref_number as given, None included, and changes no other field of the order.
AdvanceWritesRefAsGiven ==
    \A p \in Procs :
        (Done(p, "update_order") /\ resp[p] = OK /\ ~local[p].same_status) =>
            \E r \in find_by_id(onEntry[p].orders, req[p].id) :
                orders = (onEntry[p].orders \ {r})
                             \cup {[r EXCEPT !.ref_number = req[p].ref_number]}

\* C17, C19, for ids whose order row exists or that have no StatusEvent either:
\* there every call ends in a result and no unreachable!() is executed.
CallEndsInResultWithRow ==
    \A p \in Procs :
        (pc[p] = "done"
           /\ (HasRow(p) \/ StatusesOf(onEntry[p].statuses, req[p].id) = {})) =>
            resp[p] \in {OK, INTERNAL_SERVER_ERROR, NotFound, AlreadyProcessed,
                         AlreadyInStorage, AlreadyInThatState}

====
